---- MODULE Spec2Model ----
(***************************************************************************)
(* A model of algo_code/algo.py (class Algo): the zigzag construction, the *)
(* broken-LPL detector, the breaking-sentiment classifier, the higher      *)
(* order loop of calc_h_o_zigzag and the segment gate                      *)
(* determine_main_loop_start_type.                                         *)
(*                                                                         *)
(* A pdi is the zero-based position of a candle; the candle with pdi p is  *)
(* pair_df[p + 1].                                                         *)
(***************************************************************************)
EXTENDS Integers, Sequences, FiniteSets, TLC

\* ------------------------------------------------------------- bounds
\* Number of candles of a series (pipeline specifications).
MaxLen == 8
\* Prices are 1..MaxPrice.
MaxPrice == 4
\* Candles of a series that are not flat.
MaxShadowCandles == 1
\* The zigzag specification: candles per series, and prices 1..ZigzagMaxPrice.
ZigzagLen == 5
ZigzagMaxPrice == 3
\* Candles of a series in the specifications of repeated runs and of the
\* segment lifecycle gate.
SmallLen == 6
\* Calls of calc_h_o_zigzag on one instance, and instances built on a series.
MaxInvocations == 2
MaxInstances == 2
\* Positions a caller tracks for the pair.
MaxPositions == 2
\* find_relative_pivot is called with delta in -MaxDelta..MaxDelta.
MaxDelta == 3

\* detect_first_broken_lpl is called on its own at most this often.
MaxDetectCalls == 2

\* Python's None where the code holds an optional pdi.
None == -1

Prices == 1..MaxPrice

\* ------------------------------------------------------------- candles
\* A flat candle: open = high = low = close.
FlatCandle(p) == [open |-> p, high |-> p, low |-> p, close |-> p]

\* The candle_color column: green iff close >= open.
candle_color(c) == IF c.close >= c.open THEN "green" ELSE "red"

\* The candle at a pdi.
At(df, pdi) == df[pdi + 1]

\* The pdi of the last candle (pair_df.last_valid_index()).
LastPdi(df) == Len(df) - 1

Flip(t) == IF t = "peak" THEN "valley" ELSE "peak"

\* Pivot.create((candle, type)): the candle's high for a peak, low for a valley.
PivotCreate(df, pdi, t) ==
    [pdi |-> pdi, pivot_type |-> t,
     pivot_value |-> IF t = "peak" THEN At(df, pdi).high ELSE At(df, pdi).low]

\* ------------------------------------------------------------- init_zigzag
\* The candles with a higher high or a lower low than their predecessor.
SeedCandidates(df) ==
    {p \in 1..LastPdi(df) :
        At(df, p).high > At(df, p - 1).high \/ At(df, p).low < At(df, p - 1).low}

Min(S) == CHOOSE x \in S : \A y \in S : x <= y
Max(S) == CHOOSE x \in S : \A y \in S : x >= y

\* The default seed: the first candidate, a peak if its high is higher.
DefaultSeed(df) ==
    LET p == Min(SeedCandidates(df))
    IN  [pdi |-> p,
         type |-> IF At(df, p).high > At(df, p - 1).high THEN "peak" ELSE "valley"]

\* Mutant: the colours are taken the other way round.
ZigzagRowExtendOnBoth(t, row) ==
    ~ ((candle_color(row) = "green" /\ t = "valley")
       \/ (candle_color(row) = "red" /\ t = "peak"))

\* A candle with a higher high and a lower low commits the open extreme and
\* flips the type if it is green on an open valley or red on an open peak.
ZigzagRowFlipOnBoth(t, row) ==
    (candle_color(row) = "green" /\ t = "valley")
    \/ (candle_color(row) = "red" /\ t = "peak")

\* Mutant: the pivot is committed but the type of the open extreme is kept.
ZigzagCommitNoFlip(df, st, i) ==
    [last |-> i, type |-> st.type,
     pivots |-> Append(st.pivots, PivotCreate(df, st.last, st.type))]

ZigzagCommit(df, st, i) ==
    [last |-> i, type |-> Flip(st.type),
     pivots |-> Append(st.pivots, PivotCreate(df, st.last, st.type))]

\* The state of the scan: the open extreme (last, type) and the committed pivots.
\* One iteration of the for loop over the candle with pdi i.
ZigzagRow(df, st, i) ==
    LET row == At(df, i)
        lastc == At(df, st.last)
        peak_extension_condition == row.high > lastc.high /\ st.type = "peak"
        valley_extension_condition == row.low < lastc.low /\ st.type = "valley"
        reversal_from_peak_condition == row.low < lastc.low /\ st.type = "peak"
        reversal_from_valley_condition == row.high > lastc.high /\ st.type = "valley"
        both == (reversal_from_valley_condition /\ valley_extension_condition)
                \/ (peak_extension_condition /\ reversal_from_peak_condition)
        \* first statement: the candle registers a higher high and a lower low
        st1 == IF both
               THEN IF ZigzagRowFlipOnBoth(st.type, row)
                    THEN ZigzagCommit(df, st, i)
                    ELSE [st EXCEPT !.last = i]
               ELSE st
        \* second statement: if extension / elif reversal, on the conditions
        \* computed at the top of the iteration
    IN  IF peak_extension_condition \/ valley_extension_condition
        THEN [st1 EXCEPT !.last = i]
        ELSE IF reversal_from_valley_condition \/ reversal_from_peak_condition
             THEN ZigzagCommit(df, st1, i)
             ELSE st1

RECURSIVE ZigzagScan(_, _, _)
\* Mutant: the scan commits the extreme that is open after the last candle.
ZigzagScanClosingLast(df, st, i) ==
    IF i > LastPdi(df)
    THEN [st EXCEPT !.pivots = Append(@, PivotCreate(df, st.last, st.type))]
    ELSE ZigzagScan(df, ZigzagRow(df, st, i), i + 1)

\* The for loop over the candles from pdi i on.
ZigzagScan(df, st, i) ==
    IF i > LastPdi(df) THEN st
    ELSE ZigzagScan(df, ZigzagRow(df, st, i), i + 1)

\* The extreme that is open when the for loop ends: last_pivot_candle and
\* last_pivot_type after the last candle.
ZigzagOpenExtreme(df, seed) ==
    LET st == ZigzagScan(df, [last |-> seed.pdi, type |-> seed.type, pivots |-> <<>>],
                         seed.pdi + 1)
    IN  [pdi |-> st.last, type |-> st.type]

\* Mutant: the extreme that is still open is stored as the last pivot.
ZigzagFromWithOpenExtreme(df, seed) ==
    LET st == ZigzagScan(df, [last |-> seed.pdi, type |-> seed.type, pivots |-> <<>>],
                         seed.pdi + 1)
    IN  Append(st.pivots, PivotCreate(df, st.last, st.type))

\* The pivots init_zigzag stores in zigzag_df, from a seed.
ZigzagFrom(df, seed) ==
    ZigzagScan(df, [last |-> seed.pdi, type |-> seed.type, pivots |-> <<>>],
               seed.pdi + 1).pivots


\* ------------------------------------------------------------- find_relative_pivot
\* The zero-based zigzag index of the pivot with this pdi (first_valid_index),
\* None when no pivot has it.
ZigzagIdx(zz, pivot_pdi) ==
    LET hits == {k \in 1..Len(zz) : zz[k].pdi = pivot_pdi}
    IN  IF hits = {} THEN None ELSE Min(hits) - 1

\* zigzag_df.iloc[zigzag_idx + delta].pdi: iloc takes a negative position from
\* the end, and raises IndexError outside [-len, len).
FindRelativePivot(zz, pivot_pdi, delta) ==
    LET zigzag_idx == ZigzagIdx(zz, pivot_pdi)
        j == zigzag_idx + delta
    IN  IF zigzag_idx = None THEN [err |-> "TypeError", pdi |-> None]
        ELSE IF j >= Len(zz) \/ j < 0 - Len(zz)
             THEN [err |-> "IndexError", pdi |-> None]
             ELSE [err |-> "ok",
                   pdi |-> zz[(IF j < 0 THEN j + Len(zz) ELSE j) + 1].pdi]

\* zigzag_df[zigzag_df.pdi == pdi].iloc[0]
PivotAt(zz, pivot_pdi) == zz[ZigzagIdx(zz, pivot_pdi) + 1]

\* ------------------------------------------------------------- detect_first_broken_lpl
TrendOfPivotType(t) == IF t = "valley" THEN "ascending" ELSE "descending"

\* Mutant: the scan evaluates the last pivot as well.
DetectRowsWithLast(zz, check_start_pdi) ==
    SelectSeq(zz, LAMBDA p : p.pdi >= check_start_pdi)

\* zigzag_df[zigzag_df.pdi >= check_start_pdi].iloc[:-1]
DetectRows(zz, check_start_pdi) ==
    LET s == SelectSeq(zz, LAMBDA p : p.pdi >= check_start_pdi)
    IN  SubSeq(s, 1, Len(s) - 1)

ExtensionCondition(trend_type, row, extension_value) ==
    IF trend_type = "ascending"
    THEN row.pivot_type = "peak" /\ row.pivot_value >= extension_value
    ELSE row.pivot_type = "valley" /\ row.pivot_value <= extension_value

BreakingCondition(trend_type, row, breaking_value) ==
    IF trend_type = "ascending"
    THEN row.pivot_type = "valley" /\ row.pivot_value <= breaking_value
    ELSE row.pivot_type = "peak" /\ row.pivot_value >= breaking_value

\* pair_df.loc[a:b]: a label slice, both ends included.
LocSlice(df, a, b) == {p \in 0..LastPdi(df) : a <= p /\ p <= b}

\* Mutant: the breaking candle is searched from the start of the series.
BreakingCandlePdiFromSeriesStart(zz, df, trend_type, row, breaking_value) ==
    LET breaking_candle_search_window == LocSlice(df, 0, row.pdi + 1)
        lpl_breaking_candles ==
            IF trend_type = "ascending"
            THEN {p \in breaking_candle_search_window : At(df, p).low < breaking_value}
            ELSE {p \in breaking_candle_search_window : At(df, p).high > breaking_value}
    IN  IF lpl_breaking_candles = {} THEN row.pdi ELSE Min(lpl_breaking_candles)

\* The candle that broke the LPL: the first one of the search window crossing
\* breaking_value, the breaking pivot itself if there is none.
BreakingCandlePdi(zz, df, trend_type, row, breaking_value) ==
    LET pivot_before_breaking_pivot == FindRelativePivot(zz, row.pdi, -1).pdi
        breaking_candle_search_window ==
            LocSlice(df, pivot_before_breaking_pivot + 1, row.pdi + 1)
        lpl_breaking_candles ==
            IF trend_type = "ascending"
            THEN {p \in breaking_candle_search_window : At(df, p).low < breaking_value}
            ELSE {p \in breaking_candle_search_window : At(df, p).high > breaking_value}
    IN  IF lpl_breaking_candles = {} THEN row.pdi ELSE Min(lpl_breaking_candles)

\* The scan over the rows; st holds breaking_pdi, breaking_value,
\* extension_value and the pdis appended to lpl_indices so far.
RECURSIVE DetectScan(_, _, _, _, _, _)
DetectScan(zz, df, trend_type, rows, k, st) ==
    IF k > Len(rows)
    THEN [found |-> FALSE, appended |-> st.appended, trend_type |-> trend_type]
    ELSE LET row == rows[k]
         IN  IF BreakingCondition(trend_type, row, st.breaking_value)
             THEN [found |-> TRUE,
                   broken_lpl |-> PivotAt(zz, st.breaking_pdi),
                   breaking_candle_pdi |->
                       BreakingCandlePdi(zz, df, trend_type, row, st.breaking_value),
                   breaking_pivot_pdi |-> row.pdi,
                   appended |-> st.appended,
                   trend_type |-> trend_type]
             ELSE IF ExtensionCondition(trend_type, row, st.extension_value)
                  THEN LET prev_pivot ==
                               PivotAt(zz, FindRelativePivot(zz, row.pdi, -1).pdi)
                       IN  DetectScan(zz, df, trend_type, rows, k + 1,
                               [breaking_pdi |-> prev_pivot.pdi,
                                breaking_value |-> prev_pivot.pivot_value,
                                extension_value |-> row.pivot_value,
                                appended |-> Append(st.appended, prev_pivot.pdi)])
                  ELSE DetectScan(zz, df, trend_type, rows, k + 1, st)

\* detect_first_broken_lpl from a pivot of the zigzag. found = FALSE is the
\* code's None; appended are the pdis the call appends to lpl_indices, in the
\* list of the type opposite the trend.
DetectFirstBrokenLpl(zz, df, search_window_start_pdi) ==
    LET starting_pivot == PivotAt(zz, search_window_start_pdi)
        trend_type == TrendOfPivotType(starting_pivot.pivot_type)
        extension == FindRelativePivot(zz, search_window_start_pdi, 1)
        check_start == FindRelativePivot(zz, search_window_start_pdi, 2)
    IN  IF extension.err = "IndexError" \/ check_start.err = "IndexError"
        THEN [found |-> FALSE, appended |-> <<>>, trend_type |-> trend_type]
        ELSE DetectScan(zz, df, trend_type, DetectRows(zz, check_start.pdi), 1,
                 [breaking_pdi |-> search_window_start_pdi,
                  breaking_value |-> starting_pivot.pivot_value,
                  extension_value |-> PivotAt(zz, extension.pdi).pivot_value,
                  appended |-> <<>>])

\* Mutant: the extensions are registered in the list of the trend's own type.
LplAfterSameType(lpl, det) ==
    IF det.trend_type = "ascending"
    THEN [lpl EXCEPT !.peak = lpl.peak \o det.appended]
    ELSE [lpl EXCEPT !.valley = lpl.valley \o det.appended]

\* lpl_indices after a call that appended these pdis.
LplAfter(lpl, det) ==
    IF det.trend_type = "ascending"
    THEN [lpl EXCEPT !.valley = lpl.valley \o det.appended]
    ELSE [lpl EXCEPT !.peak = lpl.peak \o det.appended]

\* ------------------------------------------------------------- __detect_breaking_sentiment
\* Mutant: the window runs through the last candle.
SentimentWindowWithLast(df, latest_pbos_pdi) ==
    {p \in 0..LastPdi(df) : p >= latest_pbos_pdi + 1}

\* pair_df.iloc[latest_pbos_pdi + 1:-1]: after the PBOS, without the last candle.
SentimentWindow(df, latest_pbos_pdi) ==
    {p \in 0..LastPdi(df) : p >= latest_pbos_pdi + 1 /\ p < LastPdi(df)}

\* first_valid_index of a selection.
FirstValidIndex(S) == IF S = {} THEN None ELSE Min(S)

\* outputs_list, in the order the code builds it.
SentimentOutputs(df, latest_pbos_value, latest_pbos_pdi, latest_choch_value, trend_type) ==
    LET w == SentimentWindow(df, latest_pbos_pdi)
        asc == trend_type = "ascending"
        pbos_shadow == {p \in w : IF asc THEN At(df, p).high > latest_pbos_value
                                         ELSE At(df, p).low < latest_pbos_value}
        pbos_close == {p \in w : IF asc THEN At(df, p).close > latest_pbos_value
                                        ELSE At(df, p).close < latest_pbos_value}
        choch_shadow == {p \in w : IF asc THEN At(df, p).low < latest_choch_value
                                          ELSE At(df, p).high > latest_choch_value}
        choch_close == {p \in w : IF asc THEN At(df, p).close < latest_choch_value
                                         ELSE At(df, p).close > latest_choch_value}
    IN  << [sentiment |-> "PBOS_SHADOW", pdi |-> FirstValidIndex(pbos_shadow)],
           [sentiment |-> "PBOS_CLOSE", pdi |-> FirstValidIndex(pbos_close)],
           [sentiment |-> "CHOCH_SHADOW", pdi |-> FirstValidIndex(choch_shadow)],
           [sentiment |-> "CHOCH_CLOSE", pdi |-> FirstValidIndex(choch_close)] >>

HasClose(sentiment) == sentiment \in {"PBOS_CLOSE", "CHOCH_CLOSE"}

\* Mutant: a shadow sentiment is ranked before a close sentiment.
SortingKeyShadowFirst(output_item) ==
    << IF output_item.pdi # None THEN output_item.pdi ELSE 0,
       IF HasClose(output_item.sentiment) THEN 2 ELSE 1 >>

\* sorting_key: (pdi, or 0 for None; 1 for a CLOSE sentiment, 2 otherwise)
SortingKey(output_item) ==
    << IF output_item.pdi # None THEN output_item.pdi ELSE 0,
       IF HasClose(output_item.sentiment) THEN 1 ELSE 2 >>

\* Mutant: the keys are compared by pdi alone.
KeyLessByPdi(a, b) == a[1] < b[1]

\* Order of the tuples returned by sorting_key.
KeyLess(a, b) == a[1] < b[1] \/ (a[1] = b[1] /\ a[2] < b[2])

\* sorted(outputs_list, key=sorting_key): stable, by insertion.
RECURSIVE InsertSorted(_, _)
InsertSorted(sorted, x) ==
    IF sorted = <<>> THEN <<x>>
    ELSE LET last == sorted[Len(sorted)]
         IN  IF KeyLess(SortingKey(x), SortingKey(last))
             THEN Append(InsertSorted(SubSeq(sorted, 1, Len(sorted) - 1), x), last)
             ELSE Append(sorted, x)

RECURSIVE SortedByKey(_)
SortedByKey(s) ==
    IF s = <<>> THEN <<>>
    ELSE InsertSorted(SortedByKey(SubSeq(s, 1, Len(s) - 1)), s[Len(s)])

NoneOutput == [sentiment |-> "NONE", pdi |-> None]

DetectBreakingSentiment(df, latest_pbos_value, latest_pbos_pdi, latest_choch_value, trend_type) ==
    LET sorted_outputs ==
            SelectSeq(SortedByKey(SentimentOutputs(df, latest_pbos_value, latest_pbos_pdi,
                                                   latest_choch_value, trend_type)),
                      LAMBDA o : o.pdi # None)
    IN  IF Len(sorted_outputs) > 0 THEN sorted_outputs[1] ELSE NoneOutput


\* ------------------------------------------------------------- state
VARIABLES
    pair_df,                \* Algo.pair_df: the candle series
    zigzag_df,              \* Algo.zigzag_df: the committed pivots
    pbos_indices,           \* Algo.pbos_indices
    lpl_indices,            \* Algo.lpl_indices: [peak, valley]
    h_o_indices,            \* Algo.h_o_indices
    segments,               \* Algo.segments
    starting_pdi,           \* Algo.starting_pdi
    pattern_start_pdi,      \* calc_h_o_zigzag: local
    latest_pbos_pdi,        \* calc_h_o_zigzag: local, None after a close event
    latest_pbos_threshold,  \* calc_h_o_zigzag: local
    latest_choch_threshold, \* calc_h_o_zigzag: local
    pc,                     \* where the instance is in the pipeline
    invocations,            \* calls of calc_h_o_zigzag made on the instance
    instances,              \* Algo instances built on the series so far
    saved_result,           \* <<what the first finished run left>>, once kept
    positions,              \* positions_info_dict[pair]["positions"]
    latest_segment_start_time, \* positions_info_dict[pair]["latest_segment_start_time"]
    has_been_searched,      \* positions_info_dict[pair]["has_been_searched"]
    last_log_message,       \* positions_info_dict[pair]["last_log_message"]
    gate_pc,                \* determine_main_loop_start_type: position in the call
    is_starting_fresh,      \* determine_main_loop_start_type: local
    is_new_segment_found,   \* determine_main_loop_start_type: local
    position_idx,           \* determine_main_loop_start_type: the for loop's index
    attempts,               \* determine_main_loop_start_type: local
    cancel_calls,           \* outcomes of the cancel_position calls, per position
    gate_result,            \* what determine_main_loop_start_type returned
    call,                   \* the last method called on its own: <<name, arguments>>
    ret                     \* what that call returned or raised

algo_vars == <<pbos_indices, lpl_indices, h_o_indices, segments, starting_pdi>>
loop_vars == <<pattern_start_pdi, latest_pbos_pdi, latest_pbos_threshold,
               latest_choch_threshold>>
rerun_vars == <<invocations, instances, saved_result>>
tracker_vars == <<positions, latest_segment_start_time, has_been_searched,
                  last_log_message>>
gate_vars == <<gate_pc, is_starting_fresh, is_new_segment_found, position_idx,
               attempts, cancel_calls, gate_result>>
engine_vars == <<pair_df, zigzag_df, algo_vars, loop_vars, pc>>
call_vars == <<call, ret>>
vars == <<engine_vars, rerun_vars, tracker_vars, gate_vars, call_vars>>

\* The candle shapes the series are drawn from: flat candles, and candles
\* with shadows.
FlatCandles == {FlatCandle(p) : p \in Prices}

ShadowCandles ==
    {[open |-> 1, high |-> 3, low |-> 1, close |-> 1],
     [open |-> 3, high |-> 3, low |-> 1, close |-> 2],
     [open |-> 1, high |-> MaxPrice, low |-> 1, close |-> 1]}

IsFlat(c) == c.high = c.low

NumShadowCandles(df) == Cardinality({k \in 1..Len(df) : ~IsFlat(df[k])})

\* The series of n candles: the price moves on every candle, and at most
\* MaxShadowCandles candles are not flat.
RECURSIVE SeriesOfLen(_)
SeriesOfLen(n) ==
    IF n = 0 THEN {<<>>}
    ELSE {Append(df, c) : <<df, c>> \in
            {x \in SeriesOfLen(n - 1) \X (FlatCandles \cup ShadowCandles) :
                /\ (x[1] # <<>> => x[1][Len(x[1])] # x[2])
                /\ NumShadowCandles(x[1]) + (IF IsFlat(x[2]) THEN 0 ELSE 1)
                       <= MaxShadowCandles}}

\* Algo.__init__ on a candle series.
AlgoInit(df) ==
    /\ pair_df = df
    /\ zigzag_df = <<>>
    /\ pbos_indices = <<>>
    /\ lpl_indices = [peak |-> <<>>, valley |-> <<>>]
    /\ h_o_indices = <<>>
    /\ segments = <<>>
    /\ starting_pdi = 0
    /\ pattern_start_pdi = None
    /\ latest_pbos_pdi = None
    /\ latest_pbos_threshold = None
    /\ latest_choch_threshold = None
    /\ pc = "new"
    /\ invocations = 0
    /\ instances = 1
    /\ saved_result = <<>>
    /\ positions = <<>>
    /\ latest_segment_start_time = None
    /\ has_been_searched = FALSE
    /\ last_log_message = "NONE"
    /\ gate_pc = "idle"
    /\ is_starting_fresh = FALSE
    /\ is_new_segment_found = FALSE
    /\ position_idx = 0
    /\ attempts = 0
    /\ cancel_calls = <<>>
    /\ gate_result = "NOT_RETURNED"
    /\ call = <<"none">>
    /\ ret = <<>>

Init == \E df \in SeriesOfLen(MaxLen) : AlgoInit(df)

\* ------------------------------------------------------------- init_zigzag()
\* No candle has a higher high or lower low than its predecessor: .iloc[0]
\* raises.
InitZigzagNoSeed ==
    /\ pc = "new"
    /\ SeedCandidates(pair_df) = {}
    /\ pc' = "error"
    /\ UNCHANGED <<pair_df, zigzag_df, algo_vars, loop_vars>>
    /\ UNCHANGED <<rerun_vars, tracker_vars, gate_vars, call_vars>>

InitZigzag ==
    /\ pc = "new"
    /\ SeedCandidates(pair_df) # {}
    /\ zigzag_df' = ZigzagFrom(pair_df, DefaultSeed(pair_df))
    /\ pc' = "zigzag"
    /\ UNCHANGED <<pair_df, algo_vars, loop_vars>>
    /\ UNCHANGED <<rerun_vars, tracker_vars, gate_vars, call_vars>>

\* ------------------------------------------------------------- calc_h_o_zigzag
\* Mutant: the loop's state persists on the instance; an invocation that finds
\* it set resumes from it.
CalcStartResuming(starting_point_pdi) ==
    /\ ZigzagIdx(zigzag_df, starting_point_pdi) # None
    /\ starting_pdi' = starting_point_pdi
    /\ h_o_indices' = Append(h_o_indices, starting_point_pdi)
    /\ IF pattern_start_pdi = None
       THEN /\ latest_choch_threshold' = PivotAt(zigzag_df, starting_point_pdi).pivot_value
            /\ pattern_start_pdi' = starting_point_pdi
            /\ latest_pbos_pdi' = None
            /\ latest_pbos_threshold' = None
       ELSE UNCHANGED loop_vars
    /\ pc' = "loop"
    /\ invocations' = invocations + 1
    /\ UNCHANGED <<pair_df, zigzag_df, pbos_indices, lpl_indices, segments>>
    /\ UNCHANGED <<instances, tracker_vars, gate_vars, call_vars>>

\* The statements before the loop, for a starting point that is a pivot.
CalcStart(starting_point_pdi) ==
    /\ ZigzagIdx(zigzag_df, starting_point_pdi) # None
    /\ starting_pdi' = starting_point_pdi
    /\ h_o_indices' = Append(h_o_indices, starting_point_pdi)
    /\ latest_choch_threshold' = PivotAt(zigzag_df, starting_point_pdi).pivot_value
    /\ pattern_start_pdi' = starting_point_pdi
    /\ latest_pbos_pdi' = None
    /\ latest_pbos_threshold' = None
    /\ pc' = "loop"
    /\ invocations' = invocations + 1
    /\ UNCHANGED <<pair_df, zigzag_df, pbos_indices, lpl_indices, segments>>
    /\ UNCHANGED <<instances, tracker_vars, gate_vars, call_vars>>

\* zigzag pivots of a type with pdi in [lo, hi]
PivotsOfType(zz, t, lo, hi) ==
    SelectSeq(zz, LAMBDA p : p.pdi >= lo /\ p.pdi <= hi /\ p.pivot_type = t)

\* .loc[idxmax()] / .loc[idxmin()]: the first pivot holding the extreme value.
ExtremumPivot(cands, t) ==
    LET best == IF t = "peak"
                THEN Max({cands[k].pivot_value : k \in 1..Len(cands)})
                ELSE Min({cands[k].pivot_value : k \in 1..Len(cands)})
    IN  cands[Min({k \in 1..Len(cands) : cands[k].pivot_value = best})]

\* Mutant: the pattern restarts from the first pivot of the type.
FirstPivotOfTypeBefore(zz, t, breaking_pdi) ==
    LET s == PivotsOfType(zz, t, 0, breaking_pdi)
    IN  s[1].pdi

\* pivots_of_type_before_closing_candle.iloc[-1].pdi
LastPivotOfTypeBefore(zz, t, breaking_pdi) ==
    LET s == PivotsOfType(zz, t, 0, breaking_pdi)
    IN  s[Len(s)].pdi

TrendStartType(trend_type) == IF trend_type = "ascending" THEN "valley" ELSE "peak"

\* Mutant: the trend is kept where the code inverts it.
FlipTrendKeeping(trend_type) == trend_type

FlipTrend(trend_type) == IF trend_type = "ascending" THEN "descending" ELSE "ascending"

\* s[-k]
FromEnd(s, k) == s[Len(s) - k + 1]

\* One iteration of the while loop up to the dispatch on the sentiment: the
\* broken LPL, the trend, the BOS, the PBOS after a fresh restart, the
\* h_o_indices after its push, and the breaking sentiment.
IterCtx ==
    LET det == DetectFirstBrokenLpl(zigzag_df, pair_df, pattern_start_pdi)
    IN  IF ~det.found THEN [det |-> det, found |-> FALSE]
        ELSE
        LET trend_type == TrendOfPivotType(det.broken_lpl.pivot_type)
            \* __calc_region_start_pdi
            bos_pdi == FindRelativePivot(zigzag_df, det.broken_lpl.pdi, 1).pdi
            fresh == latest_pbos_pdi = None
            pbos_pdi == IF fresh THEN bos_pdi ELSE latest_pbos_pdi
            pbos_threshold ==
                IF fresh THEN PivotAt(zigzag_df, bos_pdi).pivot_value
                ELSE latest_pbos_threshold
            breaking_output ==
                DetectBreakingSentiment(pair_df, pbos_threshold, pbos_pdi,
                                        latest_choch_threshold, trend_type)
        IN  [det |-> det, found |-> TRUE,
             trend_type |-> trend_type,
             bos_pdi |-> bos_pdi,
             fresh |-> fresh,
             latest_pbos_pdi |-> pbos_pdi,
             latest_pbos_threshold |-> pbos_threshold,
             h_o_indices |-> IF fresh THEN Append(h_o_indices, bos_pdi) ELSE h_o_indices,
             breaking_sentiment |-> breaking_output.sentiment,
             breaking_pdi |-> breaking_output.pdi]

\* What every iteration that found a broken LPL does before the dispatch.
IterPrefix(it) ==
    /\ it.found
    /\ lpl_indices' = LplAfter(lpl_indices, it.det)
    /\ pbos_indices' = Append(pbos_indices, it.bos_pdi)

LoopNoBrokenLpl(it) ==
    /\ ~it.found
    /\ lpl_indices' = LplAfter(lpl_indices, it.det)
    /\ pc' = "halted"
    /\ UNCHANGED <<pair_df, zigzag_df, pbos_indices, h_o_indices, segments,
                starting_pdi, loop_vars>>

\* Mutant: the shadow break of the PBOS clears the tracked PBOS.
LoopPbosShadowRestarting(it) ==
    /\ IterPrefix(it)
    /\ it.breaking_sentiment = "PBOS_SHADOW"
    /\ h_o_indices' = it.h_o_indices
    /\ latest_pbos_pdi' = None
    /\ latest_pbos_threshold' =
           IF it.trend_type = "ascending" THEN At(pair_df, it.breaking_pdi).high
           ELSE At(pair_df, it.breaking_pdi).low
    /\ UNCHANGED <<pair_df, zigzag_df, segments, starting_pdi, pattern_start_pdi,
                latest_choch_threshold, pc>>

LoopPbosShadow(it) ==
    /\ IterPrefix(it)
    /\ it.breaking_sentiment = "PBOS_SHADOW"
    /\ h_o_indices' = it.h_o_indices
    /\ latest_pbos_pdi' = it.breaking_pdi
    /\ latest_pbos_threshold' =
           IF it.trend_type = "ascending" THEN At(pair_df, it.breaking_pdi).high
           ELSE At(pair_df, it.breaking_pdi).low
    /\ UNCHANGED <<pair_df, zigzag_df, segments, starting_pdi, pattern_start_pdi,
                latest_choch_threshold, pc>>

\* Mutant: the shadow break of the CHOCH leaves the CHOCH threshold where it
\* was.
LoopChochShadowKeepingThreshold(it) ==
    /\ IterPrefix(it)
    /\ it.breaking_sentiment = "CHOCH_SHADOW"
    /\ h_o_indices' = it.h_o_indices
    /\ latest_pbos_pdi' = it.latest_pbos_pdi
    /\ latest_pbos_threshold' = it.latest_pbos_threshold
    /\ UNCHANGED <<pair_df, zigzag_df, segments, starting_pdi, pattern_start_pdi,
                latest_choch_threshold, pc>>

LoopChochShadow(it) ==
    /\ IterPrefix(it)
    /\ it.breaking_sentiment = "CHOCH_SHADOW"
    /\ h_o_indices' = it.h_o_indices
    /\ latest_pbos_pdi' = it.latest_pbos_pdi
    /\ latest_pbos_threshold' = it.latest_pbos_threshold
    /\ latest_choch_threshold' =
           IF it.trend_type = "ascending" THEN At(pair_df, it.breaking_pdi).low
           ELSE At(pair_df, it.breaking_pdi).high
    /\ UNCHANGED <<pair_df, zigzag_df, segments, starting_pdi, pattern_start_pdi, pc>>

\* Mutant: the extremum is searched from the start of the leg instead of from
\* the BOS.
ExtremumCandidatesFromLegStart(it) ==
    PivotsOfType(zigzag_df, TrendStartType(it.trend_type),
                 FromEnd(it.h_o_indices, 2), it.breaking_pdi)

\* extremum_point_pivots_of_type
ExtremumCandidates(it) ==
    PivotsOfType(zigzag_df, TrendStartType(it.trend_type),
                 FromEnd(it.h_o_indices, 1), it.breaking_pdi)

\* PBOS_CLOSE with no pivot of the extremum's type in the range: idxmin/idxmax
\* of an empty selection raises.
LoopPbosCloseNoExtremum(it) ==
    /\ IterPrefix(it)
    /\ it.breaking_sentiment = "PBOS_CLOSE"
    /\ ExtremumCandidates(it) = <<>>
    /\ h_o_indices' = it.h_o_indices
    /\ latest_pbos_pdi' = it.latest_pbos_pdi
    /\ latest_pbos_threshold' = it.latest_pbos_threshold
    /\ pc' = "error"
    /\ UNCHANGED <<pair_df, zigzag_df, segments, starting_pdi, pattern_start_pdi,
                latest_choch_threshold>>

\* h_o_indices after the extremum is appended
PbosCloseHO(it) ==
    Append(it.h_o_indices,
           ExtremumPivot(ExtremumCandidates(it), TrendStartType(it.trend_type)).pdi)

\* Mutant: start and end of the segment are taken from each other's source.
PbosCloseSegmentSwapped(it) ==
    LET ho == PbosCloseHO(it)
    IN  [start_pdi |-> it.breaking_pdi - 1,
         end_pdi |-> FromEnd(ho, 3),
         ob_leg_start_pdi |-> FromEnd(ho, 3),
         ob_leg_end_pdi |-> FromEnd(ho, 2),
         top_price |-> it.latest_pbos_threshold,
         bottom_price |-> latest_choch_threshold,
         ob_formation_start_pdi |-> it.det.breaking_candle_pdi + 1,
         broken_lpl_pdi |-> it.det.broken_lpl.pdi,
         type |-> it.trend_type,
         formation_method |-> "bos"]

PbosCloseSegment(it) ==
    LET ho == PbosCloseHO(it)
    IN  [start_pdi |-> FromEnd(ho, 3),
         end_pdi |-> it.breaking_pdi - 1,
         ob_leg_start_pdi |-> FromEnd(ho, 3),
         ob_leg_end_pdi |-> FromEnd(ho, 2),
         top_price |-> it.latest_pbos_threshold,
         bottom_price |-> latest_choch_threshold,
         ob_formation_start_pdi |-> it.det.breaking_candle_pdi + 1,
         broken_lpl_pdi |-> it.det.broken_lpl.pdi,
         type |-> it.trend_type,
         formation_method |-> "bos"]

\* Mutant: the CHOCH threshold is moved to the extremum before the segment is
\* built.
LoopPbosCloseChochFirst(it) ==
    /\ IterPrefix(it)
    /\ it.breaking_sentiment = "PBOS_CLOSE"
    /\ ExtremumCandidates(it) # <<>>
    /\ h_o_indices' = PbosCloseHO(it)
    /\ pattern_start_pdi' =
           LastPivotOfTypeBefore(zigzag_df, TrendStartType(it.trend_type),
                                 it.breaking_pdi)
    /\ latest_pbos_pdi' = None
    /\ latest_pbos_threshold' = it.latest_pbos_threshold
    /\ latest_choch_threshold' =
           PivotAt(zigzag_df, FromEnd(PbosCloseHO(it), 1)).pivot_value
    /\ segments' = Append(segments,
           [PbosCloseSegment(it) EXCEPT !.bottom_price =
               PivotAt(zigzag_df, FromEnd(PbosCloseHO(it), 1)).pivot_value])
    /\ UNCHANGED <<pair_df, zigzag_df, starting_pdi, pc>>

LoopPbosClose(it) ==
    /\ IterPrefix(it)
    /\ it.breaking_sentiment = "PBOS_CLOSE"
    /\ ExtremumCandidates(it) # <<>>
    /\ h_o_indices' = PbosCloseHO(it)
    /\ pattern_start_pdi' =
           LastPivotOfTypeBefore(zigzag_df, TrendStartType(it.trend_type),
                                 it.breaking_pdi)
    /\ latest_pbos_pdi' = None
    /\ latest_pbos_threshold' = it.latest_pbos_threshold
    /\ segments' = Append(segments, PbosCloseSegment(it))
    /\ latest_choch_threshold' =
           PivotAt(zigzag_df, FromEnd(PbosCloseHO(it), 1)).pivot_value
    /\ UNCHANGED <<pair_df, zigzag_df, starting_pdi, pc>>

\* Mutant: the segment starts at the candle of the close event.
ChochCloseSegmentStartAtBreak(it) ==
    [start_pdi |-> it.breaking_pdi,
     end_pdi |-> it.breaking_pdi,
     ob_leg_start_pdi |-> FromEnd(it.h_o_indices, 2),
     ob_leg_end_pdi |-> FromEnd(it.h_o_indices, 2),
     top_price |-> it.latest_pbos_threshold,
     bottom_price |-> latest_choch_threshold,
     ob_formation_start_pdi |-> it.det.breaking_candle_pdi + 1,
     broken_lpl_pdi |-> it.det.broken_lpl.pdi,
     type |-> it.trend_type,
     formation_method |-> "choch"]

ChochCloseSegment(it) ==
    [start_pdi |-> FromEnd(it.h_o_indices, 2),
     end_pdi |-> it.breaking_pdi,
     ob_leg_start_pdi |-> FromEnd(it.h_o_indices, 2),
     ob_leg_end_pdi |-> FromEnd(it.h_o_indices, 2),
     top_price |-> it.latest_pbos_threshold,
     bottom_price |-> latest_choch_threshold,
     ob_formation_start_pdi |-> it.det.breaking_candle_pdi + 1,
     broken_lpl_pdi |-> it.det.broken_lpl.pdi,
     type |-> it.trend_type,
     formation_method |-> "choch"]

\* Mutant: the segment carries the trend type after the flip.
LoopChochCloseFlippedType(it) ==
    /\ IterPrefix(it)
    /\ it.breaking_sentiment = "CHOCH_CLOSE"
    /\ h_o_indices' = it.h_o_indices
    /\ pattern_start_pdi' =
           LastPivotOfTypeBefore(zigzag_df,
                                 TrendStartType(FlipTrend(it.trend_type)),
                                 it.breaking_pdi)
    /\ segments' = Append(segments,
           [ChochCloseSegment(it) EXCEPT !.type = FlipTrend(it.trend_type)])
    /\ latest_choch_threshold' =
           PivotAt(zigzag_df, FromEnd(it.h_o_indices, 1)).pivot_value
    /\ latest_pbos_pdi' = None
    /\ latest_pbos_threshold' = it.latest_pbos_threshold
    /\ UNCHANGED <<pair_df, zigzag_df, starting_pdi, pc>>

LoopChochClose(it) ==
    /\ IterPrefix(it)
    /\ it.breaking_sentiment = "CHOCH_CLOSE"
    /\ h_o_indices' = it.h_o_indices
    /\ pattern_start_pdi' =
           LastPivotOfTypeBefore(zigzag_df,
                                 TrendStartType(FlipTrend(it.trend_type)),
                                 it.breaking_pdi)
    /\ segments' = Append(segments, ChochCloseSegment(it))
    /\ latest_choch_threshold' =
           PivotAt(zigzag_df, FromEnd(it.h_o_indices, 1)).pivot_value
    /\ latest_pbos_pdi' = None
    /\ latest_pbos_threshold' = it.latest_pbos_threshold
    /\ UNCHANGED <<pair_df, zigzag_df, starting_pdi, pc>>

LoopNone(it) ==
    /\ IterPrefix(it)
    /\ it.breaking_sentiment = "NONE"
    /\ h_o_indices' = it.h_o_indices
    /\ latest_pbos_pdi' = it.latest_pbos_pdi
    /\ latest_pbos_threshold' = it.latest_pbos_threshold
    /\ pc' = "halted"
    /\ UNCHANGED <<pair_df, zigzag_df, segments, starting_pdi, pattern_start_pdi,
                latest_choch_threshold>>

\* One iteration of the while loop.
LoopIteration ==
    /\ pc = "loop"
    /\ LET it == IterCtx IN
       \/ LoopNoBrokenLpl(it)
       \/ LoopPbosShadow(it)
       \/ LoopChochShadow(it)
       \/ LoopPbosClose(it)
       \/ LoopPbosCloseNoExtremum(it)
       \/ LoopChochClose(it)
       \/ LoopNone(it)
    /\ UNCHANGED <<rerun_vars, tracker_vars, gate_vars, call_vars>>

\* What the caller kept of the first run that finished.
FirstResult == saved_result[1]

\* calc_h_o_zigzag(starting_point_pdi), called with the pdi of any pivot; a
\* caller that runs the pipeline again gives the starting point it gave
\* before.
CalcHOZigzag ==
    /\ pc = "zigzag"
    /\ \E k \in 1..Len(zigzag_df) :
         /\ saved_result # <<>> => zigzag_df[k].pdi = FirstResult.starting_pdi
         /\ CalcStart(zigzag_df[k].pdi)
    /\ UNCHANGED saved_result

Next ==
    \/ InitZigzag
    \/ CalcHOZigzag
    \/ LoopIteration

Spec == Init /\ [][Next]_vars


\* ------------------------------------------------------------- repeated runs
InitSmall == \E df \in SeriesOfLen(SmallLen) : AlgoInit(df)

\* What a finished run leaves on the instance.
RunResult ==
    [zigzag_df |-> zigzag_df, starting_pdi |-> starting_pdi,
     h_o_indices |-> h_o_indices, pbos_indices |-> pbos_indices,
     segments |-> segments]

\* The caller keeps the result of the first run that finished.
KeepFirstResult ==
    saved_result' = IF saved_result = <<>> THEN <<RunResult>> ELSE saved_result

\* calc_h_o_zigzag is called again on the instance, with the same starting
\* point and no new candles, after it returned.
Reinvoke ==
    /\ pc = "halted"
    /\ invocations < MaxInvocations
    /\ CalcStart(starting_pdi)
    /\ KeepFirstResult

\* Mutant: the constructor leaves the accumulators of the previous instance
\* in place.
NewInstanceKeepingLists ==
    /\ pc = "halted"
    /\ instances < MaxInstances
    /\ zigzag_df' = <<>>
    /\ starting_pdi' = 0
    /\ pattern_start_pdi' = None
    /\ latest_pbos_pdi' = None
    /\ latest_pbos_threshold' = None
    /\ latest_choch_threshold' = None
    /\ pc' = "new"
    /\ invocations' = 0
    /\ instances' = instances + 1
    /\ KeepFirstResult
    /\ UNCHANGED <<pair_df, pbos_indices, lpl_indices, h_o_indices, segments,
                   tracker_vars, gate_vars, call_vars>>

\* Algo.__init__ on the same candle series: a fresh instance.
NewInstance ==
    /\ pc = "halted"
    /\ instances < MaxInstances
    /\ zigzag_df' = <<>>
    /\ pbos_indices' = <<>>
    /\ lpl_indices' = [peak |-> <<>>, valley |-> <<>>]
    /\ h_o_indices' = <<>>
    /\ segments' = <<>>
    /\ starting_pdi' = 0
    /\ pattern_start_pdi' = None
    /\ latest_pbos_pdi' = None
    /\ latest_pbos_threshold' = None
    /\ latest_choch_threshold' = None
    /\ pc' = "new"
    /\ invocations' = 0
    /\ instances' = instances + 1
    /\ KeepFirstResult
    /\ UNCHANGED <<pair_df, tracker_vars, gate_vars, call_vars>>

NextRerun ==
    \/ InitZigzag
    \/ CalcHOZigzag
    \/ LoopIteration
    \/ Reinvoke
    \/ NewInstance

SpecRerun == InitSmall /\ [][NextRerun]_vars

\* ------------------------------------------------------------- segment lifecycle gate
\* The time column of pair_df: candle pdi opens CandleInterval after its
\* predecessor.
FirstCandleTime == 100
CandleInterval == 15
CandleTime(df, pdi) ==
    FirstCandleTime + CandleInterval * (IF pdi >= 0 THEN pdi ELSE Len(df) + pdi)

\* convert_pdis_to_times for a single pdi: a list of one is built, mapped to
\* times, and its only element returned.
ConvertPdisToTimes(df, pdis) ==
    LET list == <<pdis>>
        times == [k \in 1..Len(list) |-> CandleTime(df, list[k])]
    IN  times[1]

\* self.segments[-1]
LatestSegment == segments[Len(segments)]

RecordedTimes == {None} \cup {CandleTime(pair_df, pdi) : pdi \in 0..LastPdi(pair_df)}

\* The tracker entry of the pair that the caller passes to the gate after a
\* run of the pipeline: positions 1..n, and the start time recorded so far.
CallerTracker ==
    /\ pc = "halted"
    /\ gate_pc = "idle"
    /\ \E n \in 0..MaxPositions, recorded \in RecordedTimes :
         /\ positions' = [k \in 1..n |-> k]
         /\ latest_segment_start_time' = recorded
    /\ has_been_searched' = TRUE
    /\ last_log_message' = "NONE"
    /\ gate_pc' = "ready"
    /\ UNCHANGED <<engine_vars, rerun_vars, call_vars, is_starting_fresh, is_new_segment_found,
                   position_idx, attempts, cancel_calls, gate_result>>

\* Mutant: a latest segment that starts at the recorded time counts as new.
IsNewSegmentFoundOrEqual(fresh) ==
    fresh \/ ConvertPdisToTimes(pair_df, LatestSegment.start_pdi)
                >= latest_segment_start_time

\* is_new_segment_found: `or` does not evaluate its right side when fresh.
IsNewSegmentFound(fresh) ==
    fresh \/ ConvertPdisToTimes(pair_df, LatestSegment.start_pdi)
                > latest_segment_start_time

\* A recorded time and no segment: self.segments[-1] raises IndexError.
GateIndexError ==
    /\ gate_pc = "ready"
    /\ latest_segment_start_time # None
    /\ segments = <<>>
    /\ gate_pc' = "error"
    /\ UNCHANGED <<engine_vars, rerun_vars, call_vars, tracker_vars, is_starting_fresh,
                   is_new_segment_found, position_idx, attempts, cancel_calls,
                   gate_result>>

\* The locals of the call, once both are evaluated.
GateLocals ==
    /\ latest_segment_start_time = None \/ segments # <<>>
    /\ is_starting_fresh' = (latest_segment_start_time = None)
    /\ is_new_segment_found' = IsNewSegmentFound(latest_segment_start_time = None)
    /\ cancel_calls' = [k \in 1..Len(positions) |-> <<>>]

GateNoNewSegment ==
    /\ gate_pc = "ready"
    /\ GateLocals
    /\ ~is_new_segment_found' /\ ~is_starting_fresh'
    /\ gate_result' = "NO_NEW_SEGMENT"
    /\ gate_pc' = "returned"
    /\ UNCHANGED <<engine_vars, rerun_vars, call_vars, tracker_vars, position_idx, attempts>>

\* if is_starting_fresh: only the log line, then the statements after the
\* if/elif.
GateStartingFresh ==
    /\ gate_pc = "ready"
    /\ GateLocals
    /\ is_starting_fresh'
    /\ gate_pc' = "tail"
    /\ UNCHANGED <<engine_vars, rerun_vars, call_vars, tracker_vars, position_idx, attempts,
                   gate_result>>

\* elif is_new_segment_found: the for loop over the positions starts.
GateNewSegment ==
    /\ gate_pc = "ready"
    /\ GateLocals
    /\ ~is_starting_fresh' /\ is_new_segment_found'
    /\ position_idx' = 1
    /\ attempts' = 0
    /\ gate_pc' = "cancel"
    /\ UNCHANGED <<engine_vars, rerun_vars, call_vars, tracker_vars, gate_result>>

\* What a call of cancel_position can do: return, raise RuntimeError (the
\* position had been entered), or raise another Exception.
CancelOutcomes == {"canceled", "RuntimeError", "Exception"}

\* Mutant: RuntimeError is handled like any other exception.
CancelStepRetryingAll(outcome) ==
    IF outcome = "canceled"
    THEN position_idx' = position_idx + 1 /\ attempts' = 0
    ELSE IF attempts + 1 = 3
         THEN position_idx' = position_idx + 1 /\ attempts' = 0
         ELSE position_idx' = position_idx /\ attempts' = attempts + 1

\* The try/except of one pass of the while loop: break on success and on
\* RuntimeError, count the attempt otherwise; the while ends at 3 attempts.
CancelStep(outcome) ==
    IF outcome \in {"canceled", "RuntimeError"}
    THEN position_idx' = position_idx + 1 /\ attempts' = 0
    ELSE IF attempts + 1 = 3
         THEN position_idx' = position_idx + 1 /\ attempts' = 0
         ELSE position_idx' = position_idx /\ attempts' = attempts + 1

\* One call of position.cancel_position() in the retry loop.
GateCancelPosition ==
    /\ gate_pc = "cancel"
    /\ position_idx <= Len(positions)
    /\ attempts < 3
    /\ \E outcome \in CancelOutcomes :
         /\ cancel_calls' = [cancel_calls EXCEPT ![position_idx] = Append(@, outcome)]
         /\ CancelStep(outcome)
    /\ UNCHANGED <<engine_vars, rerun_vars, call_vars, tracker_vars, gate_pc, is_starting_fresh,
                   is_new_segment_found, gate_result>>

\* The statements after the if/elif are reached.
AtGateTail ==
    \/ gate_pc = "tail"
    \/ gate_pc = "cancel" /\ position_idx > Len(positions)

\* The statements after the if/elif, with a latest segment to register.
GateReset ==
    /\ AtGateTail
    /\ segments # <<>>
    /\ positions' = <<>>
    /\ has_been_searched' = FALSE
    /\ last_log_message' = "CANCELED_POSITIONS"
    /\ latest_segment_start_time' = ConvertPdisToTimes(pair_df, LatestSegment.start_pdi)
    /\ gate_result' = "RESET_POSITIONS"
    /\ gate_pc' = "returned"
    /\ UNCHANGED <<engine_vars, rerun_vars, call_vars, is_starting_fresh, is_new_segment_found,
                   position_idx, attempts, cancel_calls>>

\* The statements after the if/elif without a segment: the tracker is
\* cleared, then self.segments[-1] raises IndexError.
GateResetIndexError ==
    /\ AtGateTail
    /\ segments = <<>>
    /\ positions' = <<>>
    /\ has_been_searched' = FALSE
    /\ last_log_message' = "CANCELED_POSITIONS"
    /\ gate_pc' = "error"
    /\ UNCHANGED <<engine_vars, rerun_vars, call_vars, latest_segment_start_time,
                   is_starting_fresh, is_new_segment_found, position_idx, attempts,
                   cancel_calls, gate_result>>

NextGate ==
    \/ InitZigzag
    \/ CalcHOZigzag
    \/ LoopIteration
    \/ CallerTracker
    \/ GateIndexError
    \/ GateNoNewSegment
    \/ GateStartingFresh
    \/ GateNewSegment
    \/ GateCancelPosition
    \/ GateReset
    \/ GateResetIndexError

SpecGate == InitSmall /\ [][NextGate]_vars

\* ------------------------------------------------------------- methods called on their own
\* A method of an instance whose zigzag is built is called once, with
\* arguments drawn from the series.
NoCallYet == pc = "zigzag" /\ call = <<"none">>

\* find_relative_pivot(pivot_pdi, delta)
FindRelativePivotCall ==
    /\ NoCallYet
    /\ \E pivot_pdi \in 0..LastPdi(pair_df), delta \in (0 - MaxDelta)..MaxDelta :
         /\ call' = <<"find_relative_pivot", pivot_pdi, delta>>
         /\ ret' = FindRelativePivot(zigzag_df, pivot_pdi, delta)
    /\ UNCHANGED <<engine_vars, rerun_vars, tracker_vars, gate_vars>>

\* pair_df.iloc[a:b] and pair_df[a:b] with a, b >= 0: the candles at the
\* positions a .. b - 1.
IlocSlice(df, a, b) == {p \in 0..LastPdi(df) : a <= p /\ p < b}

\* pair_df.iloc[a:] and pair_df[a:] with a >= 0
IlocFrom(df, a) == {p \in 0..LastPdi(df) : a <= p}

\* Mutant: the validation window includes the candle at the threshold.
ReentryCheckWindowThroughThreshold(df, price_exit_index, position_activation_threshold, validation_mode) ==
    IF validation_mode
    THEN IlocSlice(df, price_exit_index + 1, position_activation_threshold + 1)
    ELSE IlocFrom(df, price_exit_index + 1)

ReentryCheckWindow(df, price_exit_index, position_activation_threshold, validation_mode) ==
    IF validation_mode
    THEN IlocSlice(df, price_exit_index + 1, position_activation_threshold)
    ELSE IlocFrom(df, price_exit_index + 1)

ConditionsCheckWindow(df, start_index, position_activation_threshold, validation_mode) ==
    IF validation_mode
    THEN IlocSlice(df, start_index, position_activation_threshold)
    ELSE IlocFrom(df, start_index)

\* ob_type of the order block that is created
ObType(base_pivot_type) == IF base_pivot_type = "valley" THEN "long" ELSE "short"

\* Mutant: the evaluations are invoked whether or not an exit candle was found.
ObCallsUnconditional(price_exit_index) ==
    <<"register_exit_candle", "check_reentry_condition", "set_condition_check_window",
      "check_fvg_condition", "check_stop_break_condition">>

\* The methods of the order block that form_potential_ob invokes, in order.
ObCalls(price_exit_index) ==
    IF price_exit_index = None
    THEN <<"register_exit_candle">>
    ELSE <<"register_exit_candle", "check_reentry_condition", "set_condition_check_window",
           "check_fvg_condition", "check_stop_break_condition">>

\* form_potential_ob, given what the order block reports: its start_index and
\* the price_exit_index register_exit_candle found (None when it found none).
\* The result holds the type of the order block created, the methods invoked
\* on it and, if it is returned, the two windows handed to it.
FormPotentialOb(df, start_index, price_exit_index, position_activation_threshold, validation_mode, base_pivot_type) ==
    IF price_exit_index = None
    THEN [ob |-> "None",
          ob_type |-> ObType(base_pivot_type),
          calls |-> ObCalls(price_exit_index)]
    ELSE [ob |-> "OrderBlock",
          ob_type |-> ObType(base_pivot_type),
          calls |-> ObCalls(price_exit_index),
          reentry_check_window |->
              ReentryCheckWindow(df, price_exit_index, position_activation_threshold,
                                 validation_mode),
          conditions_check_window |->
              ConditionsCheckWindow(df, start_index, position_activation_threshold,
                                    validation_mode)]

\* form_potential_ob(base_candle, base_pivot_type, icl, position_activation_threshold)
\* under either setting of constants.validation_mode; the order block starts at
\* a candle of the series and exits at that candle or a later one, or nowhere.
FormPotentialObCall ==
    /\ NoCallYet
    /\ \E start_index \in 0..LastPdi(pair_df),
          position_activation_threshold \in 0..LastPdi(pair_df),
          validation_mode \in BOOLEAN,
          base_pivot_type \in {"valley", "peak"} :
         \E price_exit_index \in {None} \cup start_index..LastPdi(pair_df) :
            /\ call' = <<"form_potential_ob", start_index, price_exit_index,
                         position_activation_threshold, validation_mode, base_pivot_type>>
            /\ ret' = FormPotentialOb(pair_df, start_index, price_exit_index,
                                      position_activation_threshold, validation_mode,
                                      base_pivot_type)
    /\ UNCHANGED <<engine_vars, rerun_vars, tracker_vars, gate_vars>>

\* Mutant: the scan resumes from the last LPL the registry holds.
DetectOnRegistry(zz, df, lpl, search_window_start_pdi) ==
    LET registered == IF PivotAt(zz, search_window_start_pdi).pivot_type = "valley"
                      THEN lpl.valley ELSE lpl.peak
    IN  IF registered = <<>>
        THEN DetectFirstBrokenLpl(zz, df, search_window_start_pdi)
        ELSE DetectFirstBrokenLpl(zz, df, registered[Len(registered)])

\* detect_first_broken_lpl on an instance whose registry holds lpl: the method
\* reads zigzag_df and pair_df, and only appends to lpl_indices.
DetectOnInstance(zz, df, lpl, search_window_start_pdi) ==
    DetectFirstBrokenLpl(zz, df, search_window_start_pdi)

\* detect_first_broken_lpl(search_window_start_pdi), called on its own from a
\* pivot of the zigzag, up to MaxDetectCalls times in a row.
DetectFirstBrokenLplCall ==
    /\ pc = "zigzag"
    /\ \/ call = <<"none">>
       \/ call[1] = "detect_first_broken_lpl" /\ call[3] < MaxDetectCalls
    /\ \E k \in 1..Len(zigzag_df) :
         LET det == DetectOnInstance(zigzag_df, pair_df, lpl_indices, zigzag_df[k].pdi)
         IN  /\ call' = <<"detect_first_broken_lpl", zigzag_df[k].pdi,
                          IF call = <<"none">> THEN 1 ELSE call[3] + 1>>
             /\ ret' = det
             /\ lpl_indices' = LplAfter(lpl_indices, det)
    /\ UNCHANGED <<pair_df, zigzag_df, pbos_indices, h_o_indices, segments, starting_pdi,
                   loop_vars, pc>>
    /\ UNCHANGED <<rerun_vars, tracker_vars, gate_vars>>

\* Position.register_entered(): the position is marked entered.
RegisterEntered(status) == "entered"

\* The latest candle reaches the entry price: its low for a long position, its
\* high for any other.
EntryCrossed(type, entry_price, latest_candle) ==
    IF type = "long" THEN latest_candle.low <= entry_price
    ELSE latest_candle.high >= entry_price

\* register_possible_position_entries(position, latest_candle): the position
\* afterwards.
RegisterPossiblePositionEntries(position, latest_candle) ==
    IF EntryCrossed(position.type, position.entry_price, latest_candle)
    THEN [position EXCEPT !.status = RegisterEntered(@)]
    ELSE position

\* register_possible_position_entries on a position of either type, with any
\* entry price and status, and the last candle of the series.
RegisterPossiblePositionEntriesCall ==
    /\ NoCallYet
    /\ \E type \in {"long", "short"}, entry_price \in Prices,
          status \in {"pending", "entered", "canceled"} :
         /\ call' = <<"register_possible_position_entries", type, entry_price, status>>
         /\ ret' = RegisterPossiblePositionEntries(
                       [type |-> type, entry_price |-> entry_price, status |-> status],
                       At(pair_df, LastPdi(pair_df)))
    /\ UNCHANGED <<engine_vars, rerun_vars, tracker_vars, gate_vars>>

NextDetect ==
    \/ InitZigzag
    \/ DetectFirstBrokenLplCall

SpecDetect == Init /\ [][NextDetect]_vars

NextCalls ==
    \/ InitZigzag
    \/ FindRelativePivotCall
    \/ FormPotentialObCall
    \/ RegisterPossiblePositionEntriesCall

SpecCalls == InitSmall /\ [][NextCalls]_vars

\* ------------------------------------------------------------- find_position_search_window
\* Mutant: a choch segment, too, starts the search from a pivot of the trend's
\* own starting type.
SearchPivotTypeOfTrend(latest_segment) ==
    IF latest_segment.type = "ascending" THEN "valley" ELSE "peak"

\* pivot_type: the type of the pivot the detector is started from.
SearchPivotType(latest_segment) ==
    IF latest_segment.formation_method = "bos"
    THEN (IF latest_segment.type = "ascending" THEN "valley" ELSE "peak")
    ELSE (IF latest_segment.type = "ascending" THEN "peak" ELSE "valley")

\* position_search_start_pdi: h_o_indices[-2] after a BOS, h_o_indices[-1]
\* after a CHOCH.
PositionSearchStartPdi(h_o, latest_segment) ==
    IF latest_segment.formation_method = "bos" THEN FromEnd(h_o, 2) ELSE FromEnd(h_o, 1)

\* pivots_of_type_before_closing_candle.iloc[-1].pdi: the pivot the detector is
\* run from, the last one of the type at or before the end of the segment.
DetectorStartPdi(zz, latest_segment) ==
    LastPivotOfTypeBefore(zz, SearchPivotType(latest_segment), latest_segment.end_pdi)

\* find_position_search_window(latest_segment): what it returns or raises, and
\* the detector result whose extensions are appended to lpl_indices.
FindPositionSearchWindow(zz, df, h_o, latest_segment) ==
    LET pivots_of_type_before_closing_candle ==
            PivotsOfType(zz, SearchPivotType(latest_segment), 0, latest_segment.end_pdi)
        no_det == [found |-> FALSE, appended |-> <<>>, trend_type |-> "ascending"]
    IN  IF Len(h_o) < (IF latest_segment.formation_method = "bos" THEN 2 ELSE 1)
           \/ pivots_of_type_before_closing_candle = <<>>
        THEN [kind |-> "IndexError", det |-> no_det]
        ELSE LET broken_lpl_data ==
                     DetectFirstBrokenLpl(zz, df,
                         FromEnd(pivots_of_type_before_closing_candle, 1).pdi)
             IN  IF broken_lpl_data.found
                 THEN [kind |-> "window",
                       start |-> PositionSearchStartPdi(h_o, latest_segment),
                       end |-> broken_lpl_data.broken_lpl.pdi,
                       activation_threshold |-> broken_lpl_data.breaking_candle_pdi,
                       det |-> broken_lpl_data]
                 ELSE [kind |-> "None", det |-> broken_lpl_data]

\* The caller asks for the search window of the latest segment once the
\* pipeline has run.
FindPositionSearchWindowCall ==
    /\ pc = "halted"
    /\ segments # <<>>
    /\ call = <<"none">>
    /\ LET r == FindPositionSearchWindow(zigzag_df, pair_df, h_o_indices, LatestSegment)
       IN  /\ call' = <<"find_position_search_window">>
           /\ ret' = r
           /\ lpl_indices' = LplAfter(lpl_indices, r.det)
    /\ UNCHANGED <<pair_df, zigzag_df, pbos_indices, h_o_indices, segments, starting_pdi,
                   loop_vars, pc>>
    /\ UNCHANGED <<rerun_vars, tracker_vars, gate_vars>>

NextWindow ==
    \/ InitZigzag
    \/ CalcHOZigzag
    \/ LoopIteration
    \/ FindPositionSearchWindowCall

SpecWindow == Init /\ [][NextWindow]_vars

\* The pipeline and find_position_search_window over series whose one candle
\* with shadows is green, with its open, low and close above the lowest price
\* and its high at the highest: a candle that can close beyond the PBOS and
\* be a pivot of the zigzag as well.
LegCandles ==
    FlatCandles \cup {[open |-> 2, high |-> MaxPrice, low |-> 2, close |-> 2]}

RECURSIVE LegSeriesOfLen(_)
LegSeriesOfLen(n) ==
    IF n = 0 THEN {<<>>}
    ELSE {Append(df, c) : <<df, c>> \in
            {x \in LegSeriesOfLen(n - 1) \X LegCandles :
                /\ (x[1] # <<>> => x[1][Len(x[1])] # x[2])
                /\ NumShadowCandles(x[1]) + (IF IsFlat(x[2]) THEN 0 ELSE 1)
                       <= MaxShadowCandles}}

InitLeg == \E df \in LegSeriesOfLen(MaxLen) : AlgoInit(df)

SpecLeg == InitLeg /\ [][NextWindow]_vars

\* ------------------------------------------------------------- zigzag specification
\* init_zigzag alone, with and without a seed given by the caller, over the
\* series of ZigzagLen candles that are flat, or green from low to high, or
\* red from high to low.
ZigzagShapes ==
    {FlatCandle(p) : p \in 1..ZigzagMaxPrice}
    \cup {[open |-> l, high |-> h, low |-> l, close |-> h] :
            <<l, h>> \in {x \in (1..ZigzagMaxPrice) \X (1..ZigzagMaxPrice) : x[1] < x[2]}}
    \cup {[open |-> h, high |-> h, low |-> l, close |-> l] :
            <<l, h>> \in {x \in (1..ZigzagMaxPrice) \X (1..ZigzagMaxPrice) : x[1] < x[2]}}

InitZigzagSpec == \E df \in [1..ZigzagLen -> ZigzagShapes] : AlgoInit(df)

\* init_zigzag(last_pivot_type, last_pivot_candle_pdi)
InitZigzagSeeded ==
    /\ pc = "new"
    /\ \E last_pivot_candle_pdi \in 0..LastPdi(pair_df), last_pivot_type \in {"peak", "valley"} :
         zigzag_df' = ZigzagFrom(pair_df, [pdi |-> last_pivot_candle_pdi,
                                           type |-> last_pivot_type])
    /\ pc' = "zigzag"
    /\ UNCHANGED <<pair_df, algo_vars, loop_vars>>
    /\ UNCHANGED <<rerun_vars, tracker_vars, gate_vars, call_vars>>

NextZigzag ==
    \/ InitZigzagNoSeed
    \/ InitZigzag
    \/ InitZigzagSeeded

SpecZigzag == InitZigzagSpec /\ [][NextZigzag]_vars

\* ------------------------------------------------------------- claims
\* C1: in the zigzag init_zigzag produces, for every candle series and every
\* seed, adjacent pivots have different types and strictly increasing pdis.
C1_Alternation ==
    \A k \in 1..(Len(zigzag_df) - 1) :
        /\ zigzag_df[k].pivot_type # zigzag_df[k + 1].pivot_type
        /\ zigzag_df[k].pdi < zigzag_df[k + 1].pdi

\* C1 witness: a zigzag of three pivots.
C1_Witness == pc = "zigzag" /\ Len(zigzag_df) >= 3


IsPrefixOf(s, t) == Len(s) <= Len(t) /\ SubSeq(t, 1, Len(s)) = s

\* C2: over a run of calc_h_o_zigzag the segments list is only appended to,
\* and every appended Segment starts at or after the one appended before it.
C2_SegmentMonotonicity ==
    [][/\ IsPrefixOf(segments, segments')
       /\ \A k \in 1..(Len(segments') - 1) :
            segments'[k].start_pdi <= segments'[k + 1].start_pdi]_vars

\* C2 witness: a bos segment followed by a choch segment that starts later.
C2_Witness ==
    /\ Len(segments) >= 2
    /\ segments[1].formation_method = "bos"
    /\ segments[2].formation_method = "choch"
    /\ segments[1].start_pdi < segments[2].start_pdi

C4_SegmentEndAfterStart ==
    \A k \in 1..Len(segments) : segments[k].end_pdi >= segments[k].start_pdi

\* C4 witness: a bos segment and a choch segment have been emitted.
C4_Witness ==
    /\ \E k \in 1..Len(segments) : segments[k].formation_method = "bos"
    /\ \E k \in 1..Len(segments) : segments[k].formation_method = "choch"

\* The outputs_list of the iteration that is about to run.
IterOutputs(it) ==
    SentimentOutputs(pair_df, it.latest_pbos_threshold, it.latest_pbos_pdi,
                     latest_choch_threshold, it.trend_type)

BreachIndices(outs) == {outs[k].pdi : k \in 1..4} \ {None}

\* C5: the sentiment returned is the one of the earliest breaching candle; a
\* close event at that candle outranks a shadow event, and a candle that is
\* the first PBOS-shadow and the first CHOCH-close breach is CHOCH_CLOSE.
C5_EarliestThenClose ==
    (pc = "loop" /\ IterCtx.found) =>
        LET it == IterCtx
            outs == IterOutputs(it)
            first == Min(BreachIndices(outs))
        IN  IF BreachIndices(outs) = {}
            THEN it.breaking_sentiment = "NONE"
            ELSE /\ it.breaking_pdi = first
                 /\ \E k \in 1..4 : /\ outs[k].sentiment = it.breaking_sentiment
                                    /\ outs[k].pdi = first
                 /\ (\E k \in 1..4 : outs[k].pdi = first /\ HasClose(outs[k].sentiment))
                        => HasClose(it.breaking_sentiment)
                 /\ (outs[1].pdi = first /\ outs[4].pdi = first)
                        => it.breaking_sentiment = "CHOCH_CLOSE"

\* C5 witness: one candle is the first PBOS-shadow breach and the first
\* CHOCH-close breach, and no candle breaches before it.
C5_Witness ==
    /\ pc = "loop"
    /\ IterCtx.found
    /\ LET outs == IterOutputs(IterCtx)
       IN  /\ outs[1].pdi # None
           /\ outs[1].pdi = outs[4].pdi
           /\ outs[1].pdi = Min(BreachIndices(outs))

Twice(s) == s \o s

NoTimeRecorded == latest_segment_start_time = None

LatestSegmentIsLater ==
    /\ latest_segment_start_time # None
    /\ CandleTime(pair_df, LatestSegment.start_pdi) > latest_segment_start_time

HeadingForReset == gate_pc \in {"cancel", "tail"}

C9_ResetCancelsEveryPosition ==
    gate_result = "RESET_POSITIONS" =>
        /\ \A k \in DOMAIN cancel_calls : cancel_calls[k] # <<>>
        /\ positions = <<>>
        /\ latest_segment_start_time = CandleTime(pair_df, LatestSegment.start_pdi)

\* The cancel_position calls made on one position are complete: the last
\* outcome ended the attempts.
AttemptsEnded(calls) ==
    /\ calls # <<>>
    /\ calls[Len(calls)] = "Exception" => Len(calls) = 3

\* C10: in a RESET that cancels, every position gets at most 3 calls of
\* cancel_position; a call is followed by another only if it failed with
\* something other than "already entered"; a position the loop has left got
\* a call that succeeded or failed as "already entered", or three calls;
\* the loop raises nothing and the call returns RESET_POSITIONS.
C10_BoundedCancelRetry ==
    (gate_pc \in {"cancel", "returned"} /\ gate_result # "NO_NEW_SEGMENT") =>
        /\ \A k \in DOMAIN cancel_calls :
              /\ Len(cancel_calls[k]) <= 3
              /\ \A j \in 1..(Len(cancel_calls[k]) - 1) : cancel_calls[k][j] = "Exception"
              /\ (gate_pc = "cancel" /\ k = position_idx) => Len(cancel_calls[k]) = attempts
              /\ (gate_pc = "cancel" /\ k > position_idx) => cancel_calls[k] = <<>>
              /\ (~is_starting_fresh /\ (gate_pc = "returned" \/ k < position_idx))
                    => AttemptsEnded(cancel_calls[k])
        /\ gate_pc = "cancel" => segments # <<>>
        /\ gate_pc = "returned" => gate_result = "RESET_POSITIONS"

\* C10 witness: RESET_POSITIONS was returned after three failed calls on the
\* first position and a call on the second.
C10_Witness ==
    /\ gate_result = "RESET_POSITIONS"
    /\ Len(cancel_calls) = 2
    /\ cancel_calls[1] = <<"Exception", "Exception", "Exception">>
    /\ cancel_calls[2] = <<"Exception", "RuntimeError">>

\* The pdis of the zigzag's pivots, in order.
PivotPdis == [k \in 1..Len(zigzag_df) |-> zigzag_df[k].pdi]

\* C11 as stated: find_relative_pivot(pdi, delta) returns the pdi of the
\* pivot delta positions away from pdi, and raises the out-of-range error
\* whenever pdi is not a pivot or that position lies outside the zigzag, for
\* positive and negative delta alike.
C11_RelativePivotOrOutOfRange ==
    call[1] = "find_relative_pivot" =>
        LET pivot_pdi == call[2]
            delta == call[3]
            at == {k \in 1..Len(zigzag_df) : zigzag_df[k].pdi = pivot_pdi}
        IN  IF at # {} /\ Min(at) + delta \in 1..Len(zigzag_df)
            THEN ret.err = "ok" /\ ret.pdi = PivotPdis[Min(at) + delta]
            ELSE ret.err = "IndexError"

\* C12: in validation mode neither window form_potential_ob hands to the order
\* block holds a candle with pdi at or after the activation threshold; in
\* forward mode both windows run through the last candle of the series.
C12_WindowBoundary ==
    (call[1] = "form_potential_ob" /\ ret.ob = "OrderBlock") =>
        LET start_index == call[2]
            price_exit_index == call[3]
            position_activation_threshold == call[4]
            validation_mode == call[5]
            windows == {ret.reentry_check_window, ret.conditions_check_window}
        IN  IF validation_mode
            THEN \A w \in windows : \A p \in w : p < position_activation_threshold
            ELSE /\ \A p \in price_exit_index + 1..LastPdi(pair_df) :
                        p \in ret.reentry_check_window
                 /\ \A p \in start_index..LastPdi(pair_df) :
                        p \in ret.conditions_check_window

\* A validation-mode call whose reentry window is not empty although candles
\* at and after the threshold exist behind the exit candle.
C12_Witness ==
    /\ call[1] = "form_potential_ob"
    /\ ret.ob = "OrderBlock"
    /\ call[5]
    /\ ret.reentry_check_window # {}
    /\ call[4] < LastPdi(pair_df)

\* C13: for the latest segment, find_position_search_window starts the window
\* at h_o_indices[-2] (bos) or h_o_indices[-1] (choch), runs the detector from
\* the last pivot at or before segment.end_pdi of the trend's own starting type
\* (bos) or of the opposite type (choch), and returns the start, the broken
\* level's pdi and the breaking candle pdi if the detector found a break, None
\* and no error if it found none.
C13_SearchWindow ==
    call[1] = "find_position_search_window" =>
        LET seg == LatestSegment
            bos == seg.formation_method = "bos"
            own == IF seg.type = "ascending" THEN "valley" ELSE "peak"
            from_type == IF bos THEN own ELSE Flip(own)
            from == {k \in 1..Len(zigzag_df) :
                        /\ zigzag_df[k].pivot_type = from_type
                        /\ zigzag_df[k].pdi <= seg.end_pdi}
            det == DetectFirstBrokenLpl(zigzag_df, pair_df, zigzag_df[Max(from)].pdi)
        IN  /\ from # {}
            /\ IF det.found
               THEN /\ ret.kind = "window"
                    /\ ret.start = h_o_indices[Len(h_o_indices) - (IF bos THEN 1 ELSE 0)]
                    /\ ret.end = det.broken_lpl.pdi
                    /\ ret.activation_threshold = det.breaking_candle_pdi
               ELSE ret.kind = "None"

C13_Witness ==
    /\ call[1] = "find_position_search_window"
    /\ LatestSegment.formation_method = "choch"
    /\ ret.kind = "window"

\* A later candle reversed the pivot: a lower low after a peak, a higher high
\* after a valley.
ReversedLater(df, pivot) ==
    \E q \in pivot.pdi + 1..LastPdi(df) :
        IF pivot.pivot_type = "peak"
        THEN At(df, q).low < At(df, pivot.pdi).low
        ELSE At(df, q).high > At(df, pivot.pdi).high

\* C14: the zigzag init_zigzag stores holds committed pivots only: whatever
\* seed the scan started from, the extreme still open at the end of the series
\* is no pivot of the zigzag, and every pivot, the last one included, is
\* followed by a candle that reversed it.
C14_OnlyCommittedPivots ==
    pc = "zigzag" =>
        /\ \A k \in 1..Len(zigzag_df) : ReversedLater(pair_df, zigzag_df[k])
        /\ \A seed \in [pdi : 0..LastPdi(pair_df), type : {"peak", "valley"}] :
               ZigzagFrom(pair_df, seed) = zigzag_df =>
                   \A k \in 1..Len(zigzag_df) :
                       zigzag_df[k].pdi < ZigzagOpenExtreme(pair_df, seed).pdi

\* A zigzag whose last pivot is followed by an open extreme that is not the
\* last candle of the series.
C14_Witness ==
    /\ pc = "zigzag"
    /\ Len(zigzag_df) >= 2
    /\ \E seed \in [pdi : 0..LastPdi(pair_df), type : {"peak", "valley"}] :
          /\ ZigzagFrom(pair_df, seed) = zigzag_df
          /\ ZigzagOpenExtreme(pair_df, seed).pdi < LastPdi(pair_df)

AllSeeds == [pdi : 0..LastPdi(pair_df), type : {"peak", "valley"}]

\* The scan from the seed before it reaches the candle with pdi i.
ScanBefore(seed, i) ==
    ZigzagScan(SubSeq(pair_df, 1, i),
               [last |-> seed.pdi, type |-> seed.type, pivots |-> <<>>], seed.pdi + 1)

\* The candle with pdi i has a higher high and a lower low than the open extreme.
BothAt(seed, i) ==
    LET st == ScanBefore(seed, i)
    IN  /\ At(pair_df, i).high > At(pair_df, st.last).high
        /\ At(pair_df, i).low < At(pair_df, st.last).low

ExtensionOnly(st, i) == [st EXCEPT !.last = i]

CommitAndFlip(st, i) ==
    [last |-> i, type |-> Flip(st.type),
     pivots |-> Append(st.pivots, PivotCreate(pair_df, st.last, st.type))]

GreenOnValleyOrRedOnPeak(st, i) ==
    \/ At(pair_df, i).close >= At(pair_df, i).open /\ st.type = "valley"
    \/ At(pair_df, i).close < At(pair_df, i).open /\ st.type = "peak"

\* C15 as stated: a candle that extends and reverses at once is an extension
\* only if it is green on an open valley or red on an open peak; in every other
\* case the open extreme is committed and the type flips.
C15_ExtendOnGreenValley ==
    pc = "zigzag" =>
        \A seed \in AllSeeds : \A i \in seed.pdi + 1..LastPdi(pair_df) :
            BothAt(seed, i) =>
                LET st == ScanBefore(seed, i)
                IN  ZigzagRow(pair_df, st, i) =
                        IF GreenOnValleyOrRedOnPeak(st, i)
                        THEN ExtensionOnly(st, i) ELSE CommitAndFlip(st, i)

\* C15, amended: a candle that extends and reverses at once commits the open
\* extreme, flips the type and opens a new extreme at itself if it is green on
\* an open valley or red on an open peak; in every other case (green on a
\* peak, red on a valley) it is an extension only.
C15_CommitOnGreenValley ==
    pc = "zigzag" =>
        \A seed \in AllSeeds : \A i \in seed.pdi + 1..LastPdi(pair_df) :
            BothAt(seed, i) =>
                LET st == ScanBefore(seed, i)
                IN  ZigzagRow(pair_df, st, i) =
                        IF GreenOnValleyOrRedOnPeak(st, i)
                        THEN CommitAndFlip(st, i) ELSE ExtensionOnly(st, i)

\* The zigzag was built by a scan in which a green candle on an open valley
\* extended and reversed at once, and the valley is the last pivot.
C15_Witness ==
    /\ pc = "zigzag"
    /\ \E seed \in AllSeeds :
          /\ ZigzagFrom(pair_df, seed) = zigzag_df
          /\ \E i \in seed.pdi + 1..LastPdi(pair_df) :
                /\ BothAt(seed, i)
                /\ ScanBefore(seed, i).type = "valley"
                /\ candle_color(At(pair_df, i)) = "green"
                /\ zigzag_df # <<>>
                /\ zigzag_df[Len(zigzag_df)].pdi = ScanBefore(seed, i).last

\* What a detector call handed back: the broken level and the breaking candle
\* pdi, or nothing.
Returned(det) == IF det.found THEN <<det.broken_lpl, det.breaking_candle_pdi>> ELSE <<>>

DetectCalled == call[1] = "detect_first_broken_lpl"

\* C16 as stated: the breaking candle pdi of a reported break is the first
\* candle after the pivot preceding the breaking pivot, up to the breaking
\* pivot inclusive, whose low (ascending) / high (descending) crosses the
\* breaking value, or the breaking pivot's pdi if there is none; it is never
\* greater than the breaking pivot's pdi.
C16_BreakingCandleWithinPivot ==
    (DetectCalled /\ ret.found) =>
        LET k == CHOOSE n \in 1..Len(zigzag_df) : zigzag_df[n].pdi = ret.breaking_pivot_pdi
            breaking_value == ret.broken_lpl.pivot_value
            crossing == {p \in zigzag_df[k - 1].pdi + 1..zigzag_df[k].pdi :
                            IF ret.trend_type = "ascending"
                            THEN At(pair_df, p).low < breaking_value
                            ELSE At(pair_df, p).high > breaking_value}
        IN  /\ ret.breaking_candle_pdi =
                   IF crossing = {} THEN zigzag_df[k].pdi ELSE Min(crossing)
            /\ ret.breaking_candle_pdi <= zigzag_df[k].pdi

\* The zigzag position of the pivot with this pdi.
PivotIndex(pdi) == CHOOSE n \in 1..Len(zigzag_df) : zigzag_df[n].pdi = pdi

\* The pivots that extend the pattern started at position k0, among those at
\* the positions k0 + 2 .. hi: a pivot of the type opposite the start that
\* reaches every pivot of that type since the start.
ExtendingPivots(k0, hi) ==
    {k \in k0 + 2..hi :
        /\ zigzag_df[k].pivot_type # zigzag_df[k0].pivot_type
        /\ \A j \in k0 + 1..k - 1 :
               zigzag_df[j].pivot_type # zigzag_df[k0].pivot_type =>
                   IF zigzag_df[k0].pivot_type = "valley"
                   THEN zigzag_df[k].pivot_value >= zigzag_df[j].pivot_value
                   ELSE zigzag_df[k].pivot_value <= zigzag_df[j].pivot_value}

\* The members of a set of pdis in increasing order.
Increasing(S) ==
    CHOOSE f \in [1..Cardinality(S) -> S] :
        \A a, b \in 1..Cardinality(S) : a < b => f[a] < f[b]

C18_LastPivotNotEvaluated ==
    DetectCalled =>
        LET last == Len(zigzag_df)
        IN  /\ PivotIndex(call[2]) + 2 > last => ~ret.found
            /\ ret.found => PivotIndex(ret.breaking_pivot_pdi) < last
            /\ \A n \in 1..Len(ret.appended) : ret.appended[n] # zigzag_df[last - 1].pdi

\* A second call, from a pivot with fewer than two successors, on a registry
\* that holds a level of an earlier call.
C18_Witness ==
    /\ DetectCalled
    /\ call[3] = 2
    /\ PivotIndex(call[2]) + 2 > Len(zigzag_df)
    /\ lpl_indices.valley # <<>>

Breaches(it, p) ==
    LET c == At(pair_df, p)
    IN  IF it.trend_type = "ascending"
        THEN \/ c.high > it.latest_pbos_threshold
             \/ c.close > it.latest_pbos_threshold
             \/ c.low < latest_choch_threshold
             \/ c.close < latest_choch_threshold
        ELSE \/ c.low < it.latest_pbos_threshold
             \/ c.close < it.latest_pbos_threshold
             \/ c.high > latest_choch_threshold
             \/ c.close > latest_choch_threshold

\* C20: the sentiment of an iteration comes from a candle with pdi strictly
\* after latest_pbos_pdi and strictly before the last candle of the series,
\* and it is NONE exactly when no candle in that range satisfies any of the
\* four conditions.
C20_SentimentWindow ==
    (pc = "loop" /\ IterCtx.found) =>
        LET it == IterCtx
            range == {p \in 0..LastPdi(pair_df) :
                         it.latest_pbos_pdi < p /\ p < LastPdi(pair_df)}
        IN  IF \E p \in range : Breaches(it, p)
            THEN it.breaking_sentiment # "NONE" /\ it.breaking_pdi \in range
            ELSE it.breaking_sentiment = "NONE"

\* The last candle of the series satisfies a condition and no candle of the
\* range does.
C20_Witness ==
    /\ pc = "loop"
    /\ IterCtx.found
    /\ IterCtx.breaking_sentiment = "NONE"
    /\ IterCtx.latest_pbos_pdi < LastPdi(pair_df) - 1
    /\ Breaches(IterCtx, LastPdi(pair_df))

\* C21: the dispatch of a shadow sentiment only moves its own threshold.
\* PBOS_SHADOW sets latest_pbos_threshold to the breaching candle's high
\* (ascending) / low (descending) and latest_pbos_pdi to that candle;
\* CHOCH_SHADOW sets latest_choch_threshold to the breaching candle's low
\* (ascending) / high (descending) and keeps the PBOS of the iteration. Neither
\* pushes onto h_o_indices beyond the iteration's own BOS push, emits a
\* Segment, changes pattern_start_pdi or clears the tracked PBOS, and the loop
\* goes on.
C21_ShadowRatchet ==
    [][(pc = "loop" /\ IterCtx.found
            /\ IterCtx.breaking_sentiment \in {"PBOS_SHADOW", "CHOCH_SHADOW"}) =>
          LET it == IterCtx
              c == At(pair_df, it.breaking_pdi)
              ascending == it.trend_type = "ascending"
          IN  /\ h_o_indices' = it.h_o_indices
              /\ segments' = segments
              /\ pattern_start_pdi' = pattern_start_pdi
              /\ latest_pbos_pdi' # None
              /\ pc' = "loop"
              /\ IF it.breaking_sentiment = "PBOS_SHADOW"
                 THEN /\ latest_pbos_pdi' = it.breaking_pdi
                      /\ latest_pbos_threshold' = IF ascending THEN c.high ELSE c.low
                      /\ latest_choch_threshold' = latest_choch_threshold
                 ELSE /\ latest_choch_threshold' = IF ascending THEN c.low ELSE c.high
                      /\ latest_pbos_pdi' = it.latest_pbos_pdi
                      /\ latest_pbos_threshold' = it.latest_pbos_threshold
      ]_vars

\* The loop goes on after a PBOS_SHADOW: the tracked PBOS is a candle, no
\* longer the BOS pivot last pushed.
C21_Witness ==
    /\ pc = "loop"
    /\ latest_pbos_pdi # None
    /\ latest_pbos_pdi # FromEnd(h_o_indices, 1)

\* The pivots of the extremum's type (valley if ascending, peak if descending)
\* with pdi between the last higher order index and the closing candle.
PivotsInCloseRange(it) ==
    {k \in 1..Len(zigzag_df) :
        /\ zigzag_df[k].pivot_type = (IF it.trend_type = "ascending" THEN "valley" ELSE "peak")
        /\ zigzag_df[k].pdi >= FromEnd(it.h_o_indices, 1)
        /\ zigzag_df[k].pdi <= it.breaking_pdi}

\* The pdi pushed by the step is that of a pivot of the range with the lowest
\* (valley) / highest (peak) value.
PushesExtremum(it) ==
    \E k \in PivotsInCloseRange(it) :
        /\ h_o_indices' = Append(it.h_o_indices, zigzag_df[k].pdi)
        /\ \A j \in PivotsInCloseRange(it) :
               IF it.trend_type = "ascending"
               THEN zigzag_df[k].pivot_value <= zigzag_df[j].pivot_value
               ELSE zigzag_df[k].pivot_value >= zigzag_df[j].pivot_value

\* C22 as stated: whenever PBOS_CLOSE is dispatched, the range from the last
\* higher order index to the closing candle holds a pivot of the extremum's
\* type, and the pdi pushed onto h_o_indices is that of such a pivot with the
\* minimum (valley) / maximum (peak) value.
C22_ExtremumDefined ==
    [][(pc = "loop" /\ IterCtx.found /\ IterCtx.breaking_sentiment = "PBOS_CLOSE") =>
          /\ PivotsInCloseRange(IterCtx) # {}
          /\ PushesExtremum(IterCtx)
      ]_vars

Evaluations ==
    {"check_reentry_condition", "set_condition_check_window", "check_fvg_condition",
     "check_stop_break_condition"}

\* C26: form_potential_ob creates a long order block iff base_pivot_type is
\* valley, a short one otherwise, and first asks it for its exit candle; with
\* no exit candle it returns None and invokes none of the reentry,
\* condition-window, fair-value-gap and stop-break evaluations; with one it
\* invokes each of the four and returns the order block.
C26_NoExitNoEvaluation ==
    call[1] = "form_potential_ob" =>
        LET invoked == {ret.calls[n] : n \in 1..Len(ret.calls)}
        IN  /\ (ret.ob_type = "long") = (call[6] = "valley")
            /\ ret.ob_type \in {"long", "short"}
            /\ ret.calls[1] = "register_exit_candle"
            /\ IF call[3] = None
               THEN ret.ob = "None" /\ invoked \cap Evaluations = {}
               ELSE ret.ob = "OrderBlock" /\ Evaluations \subseteq invoked

\* A call for a peak whose order block found no exit candle.
C26_Witness ==
    /\ call[1] = "form_potential_ob"
    /\ call[6] = "peak"
    /\ call[3] = None
    /\ ret.ob = "None"

\* C27 as stated: register_possible_position_entries marks the position
\* entered exactly when it is pending and the latest candle crosses its entry
\* (low <= entry_price for a long, high >= entry_price for a short); a
\* position that is not pending, or whose entry is not crossed, is unchanged.
C27_OnlyPendingEntered ==
    call[1] = "register_possible_position_entries" =>
        LET latest_candle == At(pair_df, LastPdi(pair_df))
            crossed == IF call[2] = "long" THEN latest_candle.low <= call[3]
                       ELSE latest_candle.high >= call[3]
        IN  /\ ret.type = call[2]
            /\ ret.entry_price = call[3]
            /\ ret.status = IF call[4] = "pending" /\ crossed THEN "entered" ELSE call[4]

\* The sentiments that move a threshold and those that restart the pattern.
ShadowSentiments == {"PBOS_SHADOW", "CHOCH_SHADOW"}
CloseSentiments == {"PBOS_CLOSE", "CHOCH_CLOSE"}

\* C28: calc_h_o_zigzag terminates.  Every iteration that leaves the loop
\* running makes strict progress in an order bounded by the series: a close
\* event moves pattern_start_pdi strictly forward; a shadow event keeps
\* pattern_start_pdi and the next iteration either finds no breach (and halts)
\* or finds its earliest breaching candle strictly later.  No combination of
\* (pattern_start_pdi, breaking_pdi) is therefore dispatched twice and the
\* loop ends after finitely many iterations.
C28_StrictProgress ==
    [][(pc = "loop" /\ pc' = "loop") =>
        LET it == IterCtx IN
        /\ it.found
        /\ it.breaking_sentiment \in ShadowSentiments \cup CloseSentiments
        /\ it.breaking_sentiment \in CloseSentiments =>
               /\ pattern_start_pdi' > pattern_start_pdi
               /\ latest_pbos_pdi' = None
        /\ it.breaking_sentiment \in ShadowSentiments =>
               /\ pattern_start_pdi' = pattern_start_pdi
               /\ latest_pbos_pdi' # None
               /\ LET next_output ==
                          DetectBreakingSentiment(pair_df, latest_pbos_threshold',
                                                  latest_pbos_pdi',
                                                  latest_choch_threshold', it.trend_type)
                  IN  \/ next_output.sentiment = "NONE"
                      \/ next_output.pdi > it.breaking_pdi]_vars

\* The loop has gone through a close event and then a shadow break of the
\* PBOS, and has come to its end in its third iteration or later.
C28_Witness ==
    /\ pc = "halted"
    /\ Len(pbos_indices) >= 3
    /\ segments # <<>>
    /\ latest_pbos_pdi # None
    /\ latest_pbos_pdi # FromEnd(h_o_indices, 1)

\* The candle with pdi p breaches the PBOS (resp. CHOCH) threshold of the
\* iteration by its shadow, and by its close.
PbosShadowBreach(it, p) ==
    IF it.trend_type = "ascending" THEN At(pair_df, p).high > it.latest_pbos_threshold
    ELSE At(pair_df, p).low < it.latest_pbos_threshold
PbosCloseBreach(it, p) ==
    IF it.trend_type = "ascending" THEN At(pair_df, p).close > it.latest_pbos_threshold
    ELSE At(pair_df, p).close < it.latest_pbos_threshold
ChochShadowBreach(it, p) ==
    IF it.trend_type = "ascending" THEN At(pair_df, p).low < latest_choch_threshold
    ELSE At(pair_df, p).high > latest_choch_threshold
ChochCloseBreach(it, p) ==
    IF it.trend_type = "ascending" THEN At(pair_df, p).close < latest_choch_threshold
    ELSE At(pair_df, p).close > latest_choch_threshold

\* Every candle of the series has low <= close <= high.
WellFormedCandles ==
    \A i \in 1..Len(pair_df) :
        pair_df[i].low <= pair_df[i].close /\ pair_df[i].close <= pair_df[i].high

\* C29: for candles with low <= close <= high, a shadow sentiment is returned
\* only for a shadow-only breach.  When the sentiment of an iteration is
\* PBOS_SHADOW (resp. CHOCH_SHADOW) with pdi p, candle p breaches that
\* threshold by its shadow and not by its close, and no candle of the window
\* before p breaches either threshold by shadow or by close.
C29_ShadowOnlyBreach ==
    (pc = "loop" /\ IterCtx.found /\ WellFormedCandles) =>
        LET it == IterCtx
            p == it.breaking_pdi
            before == {q \in 0..LastPdi(pair_df) : it.latest_pbos_pdi < q /\ q < p}
            none_before ==
                \A q \in before :
                    /\ ~PbosShadowBreach(it, q)
                    /\ ~PbosCloseBreach(it, q)
                    /\ ~ChochShadowBreach(it, q)
                    /\ ~ChochCloseBreach(it, q)
        IN  /\ it.breaking_sentiment = "PBOS_SHADOW" =>
                /\ PbosShadowBreach(it, p)
                /\ ~PbosCloseBreach(it, p)
                /\ none_before
            /\ it.breaking_sentiment = "CHOCH_SHADOW" =>
                /\ ChochShadowBreach(it, p)
                /\ ~ChochCloseBreach(it, p)
                /\ none_before

\* A shadow sentiment comes from a candle that is not the first of the window,
\* and a later candle of the window breaches the same threshold by its close.
C29_Witness ==
    /\ pc = "loop"
    /\ IterCtx.found
    /\ IterCtx.breaking_sentiment \in ShadowSentiments
    /\ IterCtx.breaking_pdi > IterCtx.latest_pbos_pdi + 1
    /\ \E q \in SentimentWindow(pair_df, IterCtx.latest_pbos_pdi) :
           /\ q > IterCtx.breaking_pdi
           /\ \/ PbosCloseBreach(IterCtx, q)
              \/ ChochCloseBreach(IterCtx, q)

\* The first k candles of the series.
FirstCandles(k) == SubSeq(pair_df, 1, k)

\* C30: committed pivots are stable under appended candles.  For every seed
\* and every k, the zigzag init_zigzag computes on the first k candles is a
\* prefix of the one it computes on the first k + 1 candles, hence (the prefix
\* order being transitive) of the one on the first n candles for every n >= k,
\* the stored zigzag of the whole series included.  Without a seed given, a
\* prefix that has a default seed has the default seed of the longer series.
C30_PrefixStable ==
    pc = "zigzag" =>
        \A k \in 1..(Len(pair_df) - 1) :
            /\ \A seed \in AllSeeds :
                   seed.pdi < k =>
                       /\ IsPrefixOf(ZigzagFrom(FirstCandles(k), seed),
                                     ZigzagFrom(FirstCandles(k + 1), seed))
                       /\ ZigzagFrom(pair_df, seed) = zigzag_df =>
                              IsPrefixOf(ZigzagFrom(FirstCandles(k), seed), zigzag_df)
            /\ SeedCandidates(FirstCandles(k)) # {} =>
                   /\ SeedCandidates(FirstCandles(k + 1)) # {}
                   /\ DefaultSeed(FirstCandles(k)) = DefaultSeed(FirstCandles(k + 1))

\* The stored zigzag has three pivots, a shorter series gives the first two
\* of them and a still shorter one the first only.
C30_Witness ==
    /\ pc = "zigzag"
    /\ Len(zigzag_df) = 3
    /\ \E seed \in AllSeeds :
          /\ ZigzagFrom(pair_df, seed) = zigzag_df
          /\ \E k \in 1..Len(pair_df) : \E j \in 1..k :
                /\ seed.pdi < j
                /\ Len(ZigzagFrom(FirstCandles(k), seed)) = 2
                /\ Len(ZigzagFrom(FirstCandles(j), seed)) = 1

\* The broken LPL the next iteration finds, from the pattern start the step
\* leaves.
NextDetection == DetectFirstBrokenLpl(zigzag_df, pair_df, pattern_start_pdi')

\* C31: the trend type an iteration derives from the type of its broken LPL
\* is that of the previous iteration, unless the previous iteration
\* dispatched CHOCH_CLOSE, and then it is the opposite; PBOS_SHADOW,
\* CHOCH_SHADOW and PBOS_CLOSE leave the trend of the next iteration as it was.
C31_TrendAcrossIterations ==
    [][(pc = "loop" /\ pc' = "loop" /\ NextDetection.found) =>
        LET it == IterCtx
            next_trend == TrendOfPivotType(NextDetection.broken_lpl.pivot_type)
        IN  /\ it.found
            /\ IF it.breaking_sentiment = "CHOCH_CLOSE"
               THEN next_trend # it.trend_type
               ELSE next_trend = it.trend_type]_vars

\* After a CHOCH_CLOSE the next iteration finds a broken LPL, of the type that
\* starts the opposite trend.
C31_Witness ==
    /\ pc = "loop"
    /\ segments # <<>>
    /\ FromEnd(segments, 1).formation_method = "choch"
    /\ latest_pbos_pdi = None
    /\ IterCtx.found
    /\ IterCtx.trend_type # FromEnd(segments, 1).type

\* C32 as stated: for a bos Segment, the pivot find_position_search_window
\* runs the detector from (the last pivot of the trend's starting type with
\* pdi <= segment.end_pdi) is the pivot the engine chose as pattern_start_pdi
\* at the PBOS_CLOSE that emitted the Segment.
C32_SameLeg ==
    (call[1] = "find_position_search_window" /\ LatestSegment.formation_method = "bos") =>
        DetectorStartPdi(zigzag_df, LatestSegment) = pattern_start_pdi

\* A break the detector returned when started from the pivot with this pdi:
\* the broken level has the type of the start pivot and the breaking candle
\* comes strictly after the broken level.
BreakAfterLevel(det, start_pdi) ==
    /\ det.broken_lpl.pivot_type = PivotAt(zigzag_df, start_pdi).pivot_type
    /\ det.breaking_candle_pdi > det.broken_lpl.pdi

\* C33: whenever detect_first_broken_lpl returns a break, in an iteration of
\* the engine or in find_position_search_window, the broken level has the
\* pivot type of the start pivot and the breaking candle pdi is strictly
\* greater than the broken level's pdi; every window find_position_search_window
\* returns has end < activation_threshold.
C33_BreakAfterLevel ==
    /\ (pc = "loop" /\ IterCtx.found) => BreakAfterLevel(IterCtx.det, pattern_start_pdi)
    /\ (call[1] = "find_position_search_window" /\ ret.kind = "window") =>
           /\ BreakAfterLevel(ret.det, DetectorStartPdi(zigzag_df, LatestSegment))
           /\ ret.end < ret.activation_threshold

\* find_position_search_window has returned the window of a bos segment: its
\* detector found a break.
C33_Witness ==
    /\ call[1] = "find_position_search_window"
    /\ LatestSegment.formation_method = "bos"
    /\ ret.kind = "window"
    /\ ret.det.found
====
